---- MODULE Spec2Model ----
(***************************************************************************)
(* The operation journal of dotman (internal/journal/journal.go): entries  *)
(* held in memory by the operation that created them, their JSON files in  *)
(* the three partition directories, and the journal store and lifecycle    *)
(* helpers that mutate both.  Every handler is cut at its storage calls    *)
(* (WriteFile, Remove), which are the only points where another party can  *)
(* observe the disk and where the process can die.                         *)
(*                                                                         *)
(* Storage calls can fail.  A failed WriteFile or Remove leaves the store  *)
(* as it was (the storage abstraction writes and removes whole files).     *)
(* In Spec, SpecCreate and SpecRead every CreateEntry gets an id of its    *)
(* own; SpecIds makes the ids as generateOperationID does, from the        *)
(* operation type and the clock.                                           *)
(***************************************************************************)
EXTENDS Integers, Sequences, FiniteSets, TLC

----------------------------------------------------------------------------
(* Bounds *)

MaxEntries == 1
MaxSteps == 2
MaxFaults == 1
MaxClock == 1
MaxCreates == 2
MaxOperations == 2
MaxPairSteps == 1
MaxDepth == 3

----------------------------------------------------------------------------
(* Types of journal.go *)

StepStatusPending == "pending"
StepStatusRunning == "running"
StepStatusCompleted == "completed"
StepStatusFailed == "failed"

EntryStateCurrent == "current"
EntryStateCompleted == "completed"
EntryStateFailed == "failed"

EntryStates == {EntryStateCurrent, EntryStateCompleted, EntryStateFailed}
TerminalStates == {EntryStateCompleted, EntryStateFailed}
TerminalStatuses == {StepStatusCompleted, StepStatusFailed}

\* The order in which GetEntry and ListEntries scan the partitions.
states == <<EntryStateCurrent, EntryStateCompleted, EntryStateFailed>>

\* Inputs of the calls.
Ids == 1..MaxEntries
OperationTypes == {"add"}
Sources == {"a/b"}
Targets == {"c/d"}
StepTypes == {"verify"}
ErrTexts == {"boom"}
DetailTexts == {"ok"}

\* Every operation type, and paths as the command line can hand them over:
\* the empty path, well-formed ones, and one holding a byte that is not
\* valid UTF-8 (file names are byte strings).
AllOperationTypes == {"add", "remove", "link"}
InvalidUTF8 == "a/\\xff"
Paths == {"", "a/b", "c/d", InvalidUTF8}

\* time.Time{} and a value of time.Now(), as instants.
ZeroTime == 0
Now == 1

\* Error results.
Nil == "nil"
Running == "running"
ErrNoSteps == "no steps in entry"
ErrIO == "io error"
ErrNotFound == "entry not found"
ErrReadingFile == "error reading file"
ErrUnmarshaling == "error unmarshaling entry"
ErrReadingEntry == "error reading entry"
ErrSavingStep == "error saving step"
ErrWritingEntry == "error writing entry"
ErrRemovingOld == "error removing old entry"

\* NewEntry with source and target exchanged.
NewEntry_SwappedPaths(id, operation, source, target) ==
    [id |-> id, timestamp |-> Now, operation |-> operation, source |-> target,
     target |-> source, state |-> EntryStateCurrent, checksum |-> "",
     steps |-> <<>>, cap |-> 0]

\* &JournalEntry{...} of CreateEntry; cap is the capacity of the Steps slice.
NewEntry(id, operation, source, target) ==
    [id |-> id, timestamp |-> Now, operation |-> operation, source |-> source,
     target |-> target, state |-> EntryStateCurrent, checksum |-> "",
     steps |-> <<>>, cap |-> 0]

\* Step{...} of AddStep.
NewStep(stepType) ==
    [type |-> stepType, status |-> StepStatusPending, error |-> "",
     details |-> "", start_time |-> Now, end_time |-> ZeroTime]

\* No in-memory entry: CreateEntry has not returned one, or its process died.
NoEntry ==
    [id |-> 0, timestamp |-> ZeroTime, operation |-> "", source |-> "",
     target |-> "", state |-> "", checksum |-> "", steps |-> <<>>, cap |-> 0]

\* A call record: the handler that last ran on an entry, its result, for a
\* move the new state and the partition of oldPath, and the text argument
\* (err.Error() or details) of the call; for CreateEntry its arguments.
Call(op, err, new, old, arg) ==
    [op |-> op, err |-> err, new |-> new, old |-> old, arg |-> arg,
     operation |-> "", source |-> "", target |-> ""]
NoCall == Call("", Nil, "", "", "")

\* A ListEntries call: the partition it is at (0 before the call), whether
\* it has read the directory there, the names ReadDir gave that are still to
\* read, the entries appended so far, what it returned, and the ids that
\* were in current when it was called.
NoScan ==
    [at |-> 0, listed |-> FALSE, names |-> <<>>, entries |-> <<>>,
     returned |-> FALSE, err |-> Nil, before |-> {}]

----------------------------------------------------------------------------
(* JSON encoding: the file holds the exported fields, not the slice capacity *)

\* encoding/json writes a string coerced to valid UTF-8: every invalid byte
\* becomes the replacement rune U+FFFD.
ToValidUTF8(str) == IF str = InvalidUTF8 THEN "a/\\ufffd" ELSE str

MarshalStep(step) ==
    [type |-> ToValidUTF8(step.type), status |-> ToValidUTF8(step.status),
     error |-> ToValidUTF8(step.error), details |-> ToValidUTF8(step.details),
     start_time |-> step.start_time, end_time |-> step.end_time]

Marshal(entry) ==
    [id |-> entry.id, timestamp |-> entry.timestamp,
     operation |-> ToValidUTF8(entry.operation),
     source |-> ToValidUTF8(entry.source),
     target |-> ToValidUTF8(entry.target),
     state |-> ToValidUTF8(entry.state),
     checksum |-> ToValidUTF8(entry.checksum),
     steps |-> [i \in 1..Len(entry.steps) |-> MarshalStep(entry.steps[i])]]

Unmarshal(data) ==
    [id |-> data.id, timestamp |-> data.timestamp, operation |-> data.operation,
     source |-> data.source, target |-> data.target, state |-> data.state,
     checksum |-> data.checksum, steps |-> data.steps, cap |-> Len(data.steps)]

----------------------------------------------------------------------------
(* Storage abstraction: a file is <<data>>, a missing file is <<>> *)

WriteFile(d, dir, id, data) == [d EXCEPT ![dir][id] = <<data>>]
Remove(d, dir, id) == [d EXCEPT ![dir][id] = <<>>]
Stat(d, dir, id) == d[dir][id] # <<>>
ReadFile(d, dir, id) == d[dir][id][1]

\* saveEntry: the path is built from the entry's state at the time of the call.
saveEntry(d, entry) == WriteFile(d, entry.state, entry.id, Marshal(entry))

readEntry(d, dir, id) == Unmarshal(ReadFile(d, dir, id))

\* Contents no journal call writes: a file that cannot be read, and one that
\* is not the JSON encoding of an entry.
Unreadable == [bad |-> ErrReadingFile]
NotJSON == [bad |-> ErrUnmarshaling]
BadData == {Unreadable, NotJSON}

\* The error readEntry returns for a file, Nil when it decodes.
readEntryErr(d, dir, id) ==
    IF ReadFile(d, dir, id) \in BadData THEN ReadFile(d, dir, id).bad ELSE Nil

----------------------------------------------------------------------------
(* State *)

VARIABLES
    mem,      \* mem[e]: the *JournalEntry the operation holds
    disk,     \* disk[dir][e]: the file {journalDir}/{dir}/{e}.json
    pc,       \* pc[e]: "none", "idle", "move", "remove" or "dead"
    ret,      \* ret[e]: the call in progress or the last call and its result
    handles,  \* handles[e]: the *Step values AddStep has returned
    faults,   \* storage failures and foreign files so far
    anyErr,   \* some call has returned an error
    issued,   \* the ids CreateEntry has returned, in order
    clock,    \* what time.Now().UnixNano() returns
    dirs,     \* the partition directories that exist
    strays,   \* the partition directories that hold a file not named *.json
    init,     \* init.root: the journal root directory exists;
              \* init.err: what the last Initialize returned
    MapFS,    \* the names a MockFileSystem holds
    scan      \* the ListEntries call in progress

vars ==
    <<mem, disk, pc, ret, handles, faults, anyErr, issued, clock, dirs, strays,
      init, MapFS, scan>>

\* What the journal's own calls on entries leave alone.
env == <<clock, dirs, strays, init, MapFS, scan>>

Init ==
    /\ mem = [e \in Ids |-> NoEntry]
    /\ disk = [dir \in EntryStates |-> [e \in Ids |-> <<>>]]
    /\ pc = [e \in Ids |-> "none"]
    /\ ret = [e \in Ids |-> NoCall]
    /\ handles = [e \in Ids |-> {}]
    /\ faults = 0
    /\ anyErr = FALSE
    /\ issued = <<>>
    /\ clock = 0
    /\ dirs = EntryStates
    /\ strays = {}
    /\ init = [root |-> TRUE, err |-> Nil]
    /\ MapFS = {}
    /\ scan = NoScan

\* The outcomes a WriteFile can have: TRUE is success.
WriteOutcomes == IF faults < MaxFaults THEN {TRUE, FALSE} ELSE {TRUE}

\* The outcomes of Remove: removing a missing file is an error in
\* OSFileSystem (os.Remove) and a success in MockFileSystem (delete).
RemoveOutcomes(dir, id) ==
    IF Stat(disk, dir, id)
    THEN IF faults < MaxFaults THEN {TRUE, FALSE} ELSE {TRUE}
    ELSE {TRUE, FALSE}

\* A call on entry e returns err.
Return(e, op, err, arg) ==
    /\ ret' = [ret EXCEPT ![e] = Call(op, err, "", "", arg)]
    /\ anyErr' = (anyErr \/ err # Nil)

----------------------------------------------------------------------------
(* Slices and step handles *)

\* The capacity append gives a full slice (Go doubles small slices).
GrowCap(cap) == IF cap = 0 THEN 1 ELSE 2 * cap

\* e.Steps = append(e.Steps, step): a full slice moves to a new backing array.
AppendStep(entry, step) ==
    [entry EXCEPT !.steps = Append(@, step),
                  !.cap = IF Len(entry.steps) < @ THEN @ ELSE GrowCap(@)]

\* &e.Steps[len(e.Steps)-1]: a pointer into the backing array of that moment,
\* which the capacity identifies (every new array is larger than the last).
HandleOf(entry) == [idx |-> Len(entry.steps), arr |-> entry.cap]

\* A handle still points into the entry's step list.
Bound(entry, h) == h.arr = entry.cap

\* The entry after *h = step: a write through a handle into an abandoned
\* backing array changes a Step the entry no longer holds.
Assign(entry, h, step) ==
    IF Bound(entry, h) THEN [entry EXCEPT !.steps[h.idx] = step] ELSE entry

\* The Step h points to, as far as the entry is concerned.
Deref(entry, h) == entry.steps[h.idx]

Started(step) == [step EXCEPT !.status = StepStatusRunning]

Completed(step, details) ==
    [step EXCEPT !.status = StepStatusCompleted, !.details = details,
                 !.end_time = Now]

\* Failed without the end time.
Failed_NoEndTime(step, err) ==
    [step EXCEPT !.status = StepStatusFailed, !.error = err]

Failed(step, err) ==
    [step EXCEPT !.status = StepStatusFailed, !.error = err, !.end_time = Now]

----------------------------------------------------------------------------
(* Journal store *)

\* Persist returning before the entry is saved.
Persist_NoSave(e, op, entry, err, arg) ==
    \E ok \in WriteOutcomes :
        /\ mem' = [mem EXCEPT ![e] = entry]
        /\ disk' = disk
        /\ faults' = IF ok THEN faults ELSE faults + 1
        /\ Return(e, op, IF ok THEN Nil ELSE err, arg)

\* jm.UpdateEntry(entry) as the last statement of a handler op that has
\* already changed the in-memory entry to `entry`.
Persist(e, op, entry, err, arg) ==
    \E ok \in WriteOutcomes :
        /\ mem' = [mem EXCEPT ![e] = entry]
        /\ disk' = IF ok THEN saveEntry(disk, entry) ELSE disk
        /\ faults' = IF ok THEN faults ELSE faults + 1
        /\ Return(e, op, IF ok THEN Nil ELSE err, arg)

\* CreateEntry, e being the id generateOperationID gives it.  There is no
\* check that the id is new: mem[e] and handles[e] follow the entry the
\* latest successful call has returned for this id.
CreateEntry(e, operation, source, target) ==
    /\ \E ok \in WriteOutcomes :
        LET entry == NewEntry(e, operation, source, target) IN
        /\ mem' = [mem EXCEPT ![e] = IF ok THEN entry ELSE @]
        /\ disk' = IF ok THEN saveEntry(disk, entry) ELSE disk
        /\ pc' = [pc EXCEPT ![e] = IF ok THEN "idle" ELSE @]
        /\ handles' = [handles EXCEPT ![e] = IF ok THEN {} ELSE @]
        /\ issued' = IF ok THEN Append(issued, e) ELSE issued
        /\ faults' = IF ok THEN faults ELSE faults + 1
        /\ ret' = [ret EXCEPT ![e] =
                     [Call("CreateEntry", IF ok THEN Nil ELSE ErrIO, "", "", "")
                        EXCEPT !.operation = operation, !.source = source,
                               !.target = target]]
        /\ anyErr' = (anyErr \/ ~ok)
    /\ UNCHANGED env

UpdateEntry(e) ==
    /\ pc[e] = "idle"
    /\ Persist(e, "UpdateEntry", mem[e], ErrIO, "")
    /\ UNCHANGED <<pc, handles, issued, env>>

\* MoveWrite with the old file removed before the new one is written.
MoveWrite_RemoveFirst(e, op, newState, arg) ==
    \E ok \in WriteOutcomes :
        LET oldState == mem[e].state
            moved == [mem[e] EXCEPT !.state = newState]
            removed == Remove(disk, oldState, e)
        IN  /\ mem' = [mem EXCEPT ![e] = moved]
            /\ disk' = IF ok THEN saveEntry(removed, moved) ELSE removed
            /\ faults' = IF ok THEN faults ELSE faults + 1
            /\ pc' = [pc EXCEPT ![e] = IF ok THEN "remove" ELSE "idle"]
            /\ ret' = [ret EXCEPT ![e] =
                         Call(op, IF ok THEN Running ELSE ErrWritingEntry,
                              newState, oldState, arg)]
            /\ anyErr' = (anyErr \/ ~ok)
            /\ UNCHANGED <<handles, issued, env>>

\* MoveWrite with entry.State set only once the write has succeeded.
MoveWrite_StateAfterWrite(e, op, newState, arg) ==
    \E ok \in WriteOutcomes :
        LET oldState == mem[e].state
            moved == [mem[e] EXCEPT !.state = newState]
        IN  /\ mem' = [mem EXCEPT ![e] = IF ok THEN moved ELSE mem[e]]
            /\ disk' = IF ok THEN saveEntry(disk, moved) ELSE disk
            /\ faults' = IF ok THEN faults ELSE faults + 1
            /\ pc' = [pc EXCEPT ![e] = IF ok THEN "remove" ELSE "idle"]
            /\ ret' = [ret EXCEPT ![e] =
                         Call(op, IF ok THEN Running ELSE ErrWritingEntry,
                              newState, oldState, arg)]
            /\ anyErr' = (anyErr \/ ~ok)
            /\ UNCHANGED <<handles, issued, env>>

\* MoveWrite saving the entry under the path of its old state.
MoveWrite_OldPath(e, op, newState, arg) ==
    \E ok \in WriteOutcomes :
        LET oldState == mem[e].state
            moved == [mem[e] EXCEPT !.state = newState]
        IN  /\ mem' = [mem EXCEPT ![e] = moved]
            /\ disk' = IF ok THEN WriteFile(disk, oldState, e, Marshal(moved))
                        ELSE disk
            /\ faults' = IF ok THEN faults ELSE faults + 1
            /\ pc' = [pc EXCEPT ![e] = IF ok THEN "remove" ELSE "idle"]
            /\ ret' = [ret EXCEPT ![e] =
                         Call(op, IF ok THEN Running ELSE ErrWritingEntry,
                              newState, oldState, arg)]
            /\ anyErr' = (anyErr \/ ~ok)
            /\ UNCHANGED <<handles, issued, env>>

\* MoveEntry taking the file in current for the old one.
MoveWrite_OldCurrent(e, op, newState, arg) ==
    \E ok \in WriteOutcomes :
        LET oldState == EntryStateCurrent
            moved == [mem[e] EXCEPT !.state = newState]
        IN  /\ mem' = [mem EXCEPT ![e] = moved]
            /\ disk' = IF ok THEN saveEntry(disk, moved) ELSE disk
            /\ faults' = IF ok THEN faults ELSE faults + 1
            /\ pc' = [pc EXCEPT ![e] = IF ok THEN "remove" ELSE "idle"]
            /\ ret' = [ret EXCEPT ![e] =
                         Call(op, IF ok THEN Running ELSE ErrWritingEntry,
                              newState, oldState, arg)]
            /\ anyErr' = (anyErr \/ ~ok)
            /\ UNCHANGED <<handles, issued, env>>

\* MoveEntry up to and including its saveEntry, called by handler op.
MoveWrite(e, op, newState, arg) ==
    \E ok \in WriteOutcomes :
        LET oldState == mem[e].state
            moved == [mem[e] EXCEPT !.state = newState]
        IN  /\ mem' = [mem EXCEPT ![e] = moved]
            /\ disk' = IF ok THEN saveEntry(disk, moved) ELSE disk
            /\ faults' = IF ok THEN faults ELSE faults + 1
            /\ pc' = [pc EXCEPT ![e] = IF ok THEN "remove" ELSE "idle"]
            /\ ret' = [ret EXCEPT ![e] =
                         Call(op, IF ok THEN Running ELSE ErrWritingEntry,
                              newState, oldState, arg)]
            /\ anyErr' = (anyErr \/ ~ok)
            /\ UNCHANGED <<handles, issued, env>>

MoveEntry(e, newState) ==
    /\ pc[e] = "idle"
    /\ MoveWrite(e, "MoveEntry", newState, "")

\* The MoveEntry call that ends CompleteEntry and FailEntry.
MoveEntryWrite(e) ==
    /\ pc[e] = "move"
    /\ MoveWrite(e, ret[e].op, ret[e].new, ret[e].arg)

\* MoveEntryRemove leaving the old file in place.
MoveEntryRemove_KeepOld(e) ==
    /\ pc[e] = "remove"
    /\ ret' = [ret EXCEPT ![e].err = Nil]
    /\ pc' = [pc EXCEPT ![e] = "idle"]
    /\ UNCHANGED <<mem, disk, handles, faults, anyErr, issued, env>>

\* MoveEntryRemove reporting a failure although the old file is gone.
MoveEntryRemove_FailAfterRemoval(e) ==
    /\ pc[e] = "remove"
    /\ \E ok \in RemoveOutcomes(ret[e].old, e) :
        /\ disk' = Remove(disk, ret[e].old, e)
        /\ faults' = IF ~ok /\ Stat(disk, ret[e].old, e) THEN faults + 1 ELSE faults
        /\ ret' = [ret EXCEPT ![e].err = IF ok THEN Nil ELSE ErrRemovingOld]
        /\ anyErr' = (anyErr \/ ~ok)
    /\ pc' = [pc EXCEPT ![e] = "idle"]
    /\ UNCHANGED <<mem, handles, issued, env>>

\* MoveEntryRemove emptying the old partition directory.
MoveEntryRemove_WholePartition(e) ==
    /\ pc[e] = "remove"
    /\ \E ok \in RemoveOutcomes(ret[e].old, e) :
        /\ disk' = IF ok
                    THEN [disk EXCEPT ![ret[e].old] = [o \in DOMAIN @ |-> <<>>]]
                    ELSE disk
        /\ faults' = IF ~ok /\ Stat(disk, ret[e].old, e) THEN faults + 1 ELSE faults
        /\ ret' = [ret EXCEPT ![e].err = IF ok THEN Nil ELSE ErrRemovingOld]
        /\ anyErr' = (anyErr \/ ~ok)
    /\ pc' = [pc EXCEPT ![e] = "idle"]
    /\ UNCHANGED <<mem, handles, issued, env>>

\* jm.fsys.Remove(oldPath) and the return of MoveEntry.
MoveEntryRemove(e) ==
    /\ pc[e] = "remove"
    /\ \E ok \in RemoveOutcomes(ret[e].old, e) :
        /\ disk' = IF ok THEN Remove(disk, ret[e].old, e) ELSE disk
        /\ faults' = IF ~ok /\ Stat(disk, ret[e].old, e) THEN faults + 1 ELSE faults
        /\ ret' = [ret EXCEPT ![e].err = IF ok THEN Nil ELSE ErrRemovingOld]
        /\ anyErr' = (anyErr \/ ~ok)
    /\ pc' = [pc EXCEPT ![e] = "idle"]
    /\ UNCHANGED <<mem, handles, issued, env>>

\* GetEntryDirs without the last partition of the scan order.
GetEntryDirs_NoFailed(id) ==
    {i \in 1..(Len(states) - 1) : Stat(disk, states[i], id)}

\* GetEntry: the first partition, in scan order, that has a file for id.
GetEntryDirs(id) == {i \in 1..Len(states) : Stat(disk, states[i], id)}

GetEntryFound(id) == GetEntryDirs(id) # {}

\* GetEntry preferring the last partition in scan order that has the file.
GetEntry_LastMatch(id) ==
    LET i == CHOOSE i \in GetEntryDirs(id) : \A j \in GetEntryDirs(id) : i >= j
    IN  readEntry(disk, states[i], id)

GetEntry(id) ==
    LET i == CHOOSE i \in GetEntryDirs(id) : \A j \in GetEntryDirs(id) : i <= j
    IN  readEntry(disk, states[i], id)

\* GetEntry's error: not found, or what readEntry says of the first match.
GetEntryErr(id) ==
    IF ~GetEntryFound(id) THEN ErrNotFound
    ELSE LET i == CHOOSE i \in GetEntryDirs(id) : \A j \in GetEntryDirs(id) : i <= j
         IN  readEntryErr(disk, states[i], id)

\* The result of a scan: the entries and the error, one of them empty.
Listed(entries) == [entries |-> entries, err |-> Nil]
ListError(err) == [entries |-> <<>>, err |-> err]

\* What ReadDir returns for a partition directory: a name for every file.
JSONExt == ".json"
ReadDir(dir) ==
    {[id |-> id, ext |-> JSONExt] : id \in {n \in DOMAIN disk[dir] : Stat(disk, dir, n)}}
        \cup {[id |-> 0, ext |-> ""] : x \in {y \in {dir} : y \in strays}}

\* ScanDirs scanning all three partitions whatever the filter.
ScanDirs_IgnoreFilter(state) == states

\* ScanDirs scanning the terminal partitions before current.
ScanDirs_CurrentLast(state) ==
    IF state = ""
    THEN <<EntryStateCompleted, EntryStateFailed, EntryStateCurrent>>
    ELSE <<state>>

\* The directories ListEntries(state) scans.
ScanDirs(state) == IF state = "" THEN states ELSE <<state>>

\* ListDir leaving out the files readEntry fails on.
RECURSIVE ListDir_SkipBad(_, _)
ListDir_SkipBad(dir, n) ==
    IF dir \notin dirs \/ n \notin DOMAIN disk[dir] THEN Listed(<<>>)
    ELSE IF [id |-> n, ext |-> JSONExt] \notin ReadDir(dir)
              \/ readEntryErr(disk, dir, n) # Nil
         THEN ListDir_SkipBad(dir, n + 1)
         ELSE Listed(<<readEntry(disk, dir, n)>>
                        \o ListDir_SkipBad(dir, n + 1).entries)

\* ListDir returning the error of Open for a directory that does not exist.
RECURSIVE ListDir_OpenError(_, _)
ListDir_OpenError(dir, n) ==
    IF dir \notin dirs THEN ListError(ErrIO)
    ELSE IF n \notin DOMAIN disk[dir] THEN Listed(<<>>)
    ELSE IF [id |-> n, ext |-> JSONExt] \notin ReadDir(dir)
         THEN ListDir_OpenError(dir, n + 1)
         ELSE IF readEntryErr(disk, dir, n) # Nil
              THEN ListError(ErrReadingEntry)
              ELSE LET rest == ListDir_OpenError(dir, n + 1) IN
                   IF rest.err # Nil THEN rest
                   ELSE Listed(<<readEntry(disk, dir, n)>> \o rest.entries)

\* One partition of ListEntries, from file n on in the order of ReadDir
\* (sorted by name): a directory that cannot be opened is skipped, names
\* without the .json extension are skipped, and the first file readEntry
\* fails on ends the call with an error and no entries.
RECURSIVE ListDir(_, _)
ListDir(dir, n) ==
    IF dir \notin dirs \/ n \notin DOMAIN disk[dir] THEN Listed(<<>>)
    ELSE IF [id |-> n, ext |-> JSONExt] \notin ReadDir(dir)
         THEN ListDir(dir, n + 1)
         ELSE IF readEntryErr(disk, dir, n) # Nil
              THEN ListError(ErrReadingEntry)
              ELSE LET rest == ListDir(dir, n + 1) IN
                   IF rest.err # Nil THEN rest
                   ELSE Listed(<<readEntry(disk, dir, n)>> \o rest.entries)

\* The partitions ds[i..] of a scan, one after the other.
RECURSIVE ScanFrom(_, _)
ScanFrom(ds, i) ==
    IF i > Len(ds) THEN Listed(<<>>)
    ELSE LET here == ListDir(ds[i], 1) IN
         IF here.err # Nil THEN here
         ELSE LET rest == ScanFrom(ds, i + 1) IN
              IF rest.err # Nil THEN rest
              ELSE Listed(here.entries \o rest.entries)

\* ListEntries(state): the entries it returns, and its error.
ListEntries(state) == ScanFrom(ScanDirs(state), 1).entries
ListEntriesErr(state) == ScanFrom(ScanDirs(state), 1).err

----------------------------------------------------------------------------
(* Step and entry lifecycle helpers *)

AddStep(e, stepType) ==
    /\ pc[e] = "idle"
    /\ Len(mem[e].steps) < MaxSteps
    /\ LET grown == AppendStep(mem[e], NewStep(stepType)) IN
        /\ Persist(e, "AddStep", grown, ErrSavingStep, "")
        /\ handles' = [handles EXCEPT ![e] =
                         IF ret'[e].err = Nil THEN @ \cup {HandleOf(grown)} ELSE @]
    /\ UNCHANGED <<pc, issued, env>>

StartStep(e, h) ==
    /\ pc[e] = "idle"
    /\ h \in handles[e]
    /\ Persist(e, "StartStep", Assign(mem[e], h, Started(Deref(mem[e], h))), ErrIO, "")
    /\ UNCHANGED <<pc, handles, issued, env>>

CompleteStep(e, h, details) ==
    /\ pc[e] = "idle"
    /\ h \in handles[e]
    /\ Persist(e, "CompleteStep",
               Assign(mem[e], h, Completed(Deref(mem[e], h), details)), ErrIO, details)
    /\ UNCHANGED <<pc, handles, issued, env>>

FailStep(e, h, err) ==
    /\ pc[e] = "idle"
    /\ h \in handles[e]
    /\ Persist(e, "FailStep",
               Assign(mem[e], h, Failed(Deref(mem[e], h), err)), ErrIO, err)
    /\ UNCHANGED <<pc, handles, issued, env>>

\* FailEntry without the check for an empty step list.
FailEntry_NoStepsCheck(e, err) ==
    /\ pc[e] = "idle"
    /\ \E ok \in WriteOutcomes :
        LET n == Len(mem[e].steps)
            marked == IF n = 0 THEN mem[e]
                      ELSE [mem[e] EXCEPT !.steps[n] = Failed(@, err)]
        IN  /\ mem' = [mem EXCEPT ![e] = marked]
            /\ disk' = IF ok THEN saveEntry(disk, marked) ELSE disk
            /\ faults' = IF ok THEN faults ELSE faults + 1
            /\ pc' = [pc EXCEPT ![e] = IF ok THEN "move" ELSE "idle"]
            /\ ret' = [ret EXCEPT ![e] =
                         IF ok
                         THEN Call("FailEntry", Running, EntryStateFailed, "", err)
                         ELSE Call("FailEntry", ErrIO, "", "", err)]
            /\ anyErr' = (anyErr \/ ~ok)
    /\ UNCHANGED <<handles, issued, env>>

\* FailEntry marking every step of the entry failed.
FailEntry_AllSteps(e, err) ==
    /\ pc[e] = "idle"
    /\ IF Len(mem[e].steps) = 0
       THEN /\ Return(e, "FailEntry", ErrNoSteps, err)
            /\ UNCHANGED <<mem, disk, pc, faults>>
       ELSE \E ok \in WriteOutcomes :
            LET marked == [mem[e] EXCEPT !.steps =
                             [i \in 1..Len(@) |-> Failed(@[i], err)]]
            IN  /\ mem' = [mem EXCEPT ![e] = marked]
                /\ disk' = IF ok THEN saveEntry(disk, marked) ELSE disk
                /\ faults' = IF ok THEN faults ELSE faults + 1
                /\ pc' = [pc EXCEPT ![e] = IF ok THEN "move" ELSE "idle"]
                /\ ret' = [ret EXCEPT ![e] =
                             IF ok
                             THEN Call("FailEntry", Running, EntryStateFailed, "", err)
                             ELSE Call("FailEntry", ErrIO, "", "", err)]
                /\ anyErr' = (anyErr \/ ~ok)
    /\ UNCHANGED <<handles, issued, env>>

\* FailEntry up to its MoveEntry call.
FailEntry(e, err) ==
    /\ pc[e] = "idle"
    /\ IF Len(mem[e].steps) = 0
       THEN /\ Return(e, "FailEntry", ErrNoSteps, err)
            /\ UNCHANGED <<mem, disk, pc, faults>>
       ELSE \E ok \in WriteOutcomes :
            LET n == Len(mem[e].steps)
                marked == [mem[e] EXCEPT !.steps[n] = Failed(@, err)]
            IN  /\ mem' = [mem EXCEPT ![e] = marked]
                /\ disk' = IF ok THEN saveEntry(disk, marked) ELSE disk
                /\ faults' = IF ok THEN faults ELSE faults + 1
                /\ pc' = [pc EXCEPT ![e] = IF ok THEN "move" ELSE "idle"]
                /\ ret' = [ret EXCEPT ![e] =
                             IF ok
                             THEN Call("FailEntry", Running, EntryStateFailed, "", err)
                             ELSE Call("FailEntry", ErrIO, "", "", err)]
                /\ anyErr' = (anyErr \/ ~ok)
    /\ UNCHANGED <<handles, issued, env>>

\* CompleteEntry going on to MoveEntry whatever UpdateEntry has returned.
CompleteEntry_IgnoreError(e) ==
    /\ pc[e] = "idle"
    /\ \E ok \in WriteOutcomes :
        /\ disk' = IF ok THEN saveEntry(disk, mem[e]) ELSE disk
        /\ faults' = IF ok THEN faults ELSE faults + 1
        /\ pc' = [pc EXCEPT ![e] = "move"]
        /\ ret' = [ret EXCEPT ![e] =
                     Call("CompleteEntry", Running, EntryStateCompleted, "", "")]
        /\ anyErr' = anyErr
    /\ UNCHANGED <<mem, handles, issued, env>>

\* CompleteEntry up to its MoveEntry call.
CompleteEntry(e) ==
    /\ pc[e] = "idle"
    /\ \E ok \in WriteOutcomes :
        /\ disk' = IF ok THEN saveEntry(disk, mem[e]) ELSE disk
        /\ faults' = IF ok THEN faults ELSE faults + 1
        /\ pc' = [pc EXCEPT ![e] = IF ok THEN "move" ELSE "idle"]
        /\ ret' = [ret EXCEPT ![e] =
                     IF ok
                     THEN Call("CompleteEntry", Running, EntryStateCompleted, "", "")
                     ELSE Call("CompleteEntry", ErrIO, "", "", "")]
        /\ anyErr' = (anyErr \/ ~ok)
    /\ UNCHANGED <<mem, handles, issued, env>>

\* The process dies between two storage calls of a handler: the in-memory
\* entry and its handles are gone, the files stay.
Crash(e) ==
    /\ pc[e] \in {"move", "remove"}
    /\ pc' = [pc EXCEPT ![e] = "dead"]
    /\ mem' = [mem EXCEPT ![e] = NoEntry]
    /\ handles' = [handles EXCEPT ![e] = {}]
    /\ UNCHANGED <<disk, ret, faults, anyErr, issued, env>>

Next ==
    \E e \in Ids :
        \/ /\ pc[e] = "none"
           /\ \E operation \in OperationTypes, source \in Sources,
                 target \in Targets :
                CreateEntry(e, operation, source, target)
        \/ UpdateEntry(e)
        \/ \E newState \in EntryStates : MoveEntry(e, newState)
        \/ MoveEntryWrite(e)
        \/ MoveEntryRemove(e)
        \/ \E stepType \in StepTypes : AddStep(e, stepType)
        \/ \E h \in handles[e] : StartStep(e, h)
        \/ \E h \in handles[e], details \in DetailTexts : CompleteStep(e, h, details)
        \/ \E h \in handles[e], err \in ErrTexts : FailStep(e, h, err)
        \/ \E err \in ErrTexts : FailEntry(e, err)
        \/ CompleteEntry(e)
        \/ Crash(e)

Spec == Init /\ [][Next]_vars

\* The same journal with CreateEntry called with every operation type and
\* every path, and the calls that rewrite the entry in place.
NextCreate ==
    \E e \in Ids :
        \/ /\ pc[e] = "none"
           /\ \E operation \in AllOperationTypes, source \in Paths,
                 target \in Paths :
                CreateEntry(e, operation, source, target)
        \/ UpdateEntry(e)
        \/ \E stepType \in StepTypes : AddStep(e, stepType)
        \/ \E h \in handles[e] : StartStep(e, h)
        \/ \E h \in handles[e], details \in DetailTexts : CompleteStep(e, h, details)
        \/ \E h \in handles[e], err \in ErrTexts : FailStep(e, h, err)

SpecCreate == Init /\ [][NextCreate]_vars

----------------------------------------------------------------------------
(* The journal directory as the readers find it *)

\* Before the first Initialize no directory exists.
InitRead ==
    /\ mem = [e \in Ids |-> NoEntry]
    /\ disk = [dir \in EntryStates |-> [e \in Ids |-> <<>>]]
    /\ pc = [e \in Ids |-> "none"]
    /\ ret = [e \in Ids |-> NoCall]
    /\ handles = [e \in Ids |-> {}]
    /\ faults = 0
    /\ anyErr = FALSE
    /\ issued = <<>>
    /\ clock = 0
    /\ dirs = {}
    /\ strays = {}
    /\ init = [root |-> FALSE, err |-> ""]
    /\ MapFS = {}
    /\ scan = NoScan

\* The MkdirAll calls of Initialize: the root, then the partitions.
Mkdirs == Len(states) + 1

\* Initialize with Mkdir for MkdirAll: a directory that exists is an error.
Initialize_Mkdir ==
    /\ \E n \in (IF init.root THEN {0}
                 ELSE IF faults < MaxFaults THEN 0..Mkdirs ELSE {Mkdirs}) :
        /\ dirs' = dirs \cup {states[i] : i \in 1..(n - 1)}
        /\ init' = [root |-> init.root \/ n >= 1,
                    err |-> IF n < Mkdirs THEN ErrIO ELSE Nil]
        /\ faults' = IF n < Mkdirs /\ ~init.root THEN faults + 1 ELSE faults
        /\ anyErr' = (anyErr \/ n < Mkdirs)
    /\ UNCHANGED <<mem, disk, pc, ret, handles, issued, clock, strays, MapFS,
                 scan>>

\* Initialize: MkdirAll of the root and of the partitions in scan order,
\* each a success for a directory that exists; the first failure ends the
\* call and leaves the directories of the n calls before it.
Initialize ==
    /\ \E n \in (IF faults < MaxFaults THEN 0..Mkdirs ELSE {Mkdirs}) :
        /\ dirs' = dirs \cup {states[i] : i \in 1..(n - 1)}
        /\ init' = [root |-> init.root \/ n >= 1,
                    err |-> IF n < Mkdirs THEN ErrIO ELSE Nil]
        /\ faults' = IF n < Mkdirs THEN faults + 1 ELSE faults
        /\ anyErr' = (anyErr \/ n < Mkdirs)
    /\ UNCHANGED <<mem, disk, pc, ret, handles, issued, clock, strays, MapFS,
                 scan>>

\* The operations initialize the journal before they create an entry.
Initialized == dirs = EntryStates

\* Something other than the journal leaves {id}.json in a partition
\* unreadable or not an entry.
Damage(dir, id) ==
    /\ dir \in dirs
    /\ faults < MaxFaults
    /\ \E data \in BadData : disk' = WriteFile(disk, dir, id, data)
    /\ faults' = faults + 1
    /\ UNCHANGED <<mem, pc, ret, handles, anyErr, issued, clock, dirs, strays,
                   init, MapFS, scan>>

\* Something other than the journal leaves a file not named *.json, or a
\* subdirectory, in a partition.
Stray(dir) ==
    /\ dir \in dirs \ strays
    /\ faults < MaxFaults
    /\ strays' = strays \cup {dir}
    /\ faults' = faults + 1
    /\ UNCHANGED <<mem, disk, pc, ret, handles, anyErr, issued, clock, dirs,
                   init, MapFS, scan>>

NextRead ==
    \/ Initialize
    \/ \E dir \in EntryStates, e \in Ids : Damage(dir, e)
    \/ \E dir \in EntryStates : Stray(dir)
    \/ \E e \in Ids :
        \/ /\ Initialized
           /\ pc[e] = "none"
           /\ \E operation \in OperationTypes, source \in Sources,
                 target \in Targets :
                CreateEntry(e, operation, source, target)
        \/ Initialized /\ UpdateEntry(e)
        \/ Initialized /\ \E newState \in EntryStates : MoveEntry(e, newState)
        \/ Initialized /\ MoveEntryRemove(e)
        \/ Initialized /\ \E stepType \in StepTypes : AddStep(e, stepType)
        \/ Crash(e)

SpecRead == InitRead /\ [][NextRead]_vars

----------------------------------------------------------------------------
(* Operations side by side, each on the entry it has created *)

Operations == 1..MaxOperations

InitPair ==
    /\ mem = [e \in Operations |-> NoEntry]
    /\ disk = [dir \in EntryStates |-> [e \in Operations |-> <<>>]]
    /\ pc = [e \in Operations |-> "none"]
    /\ ret = [e \in Operations |-> NoCall]
    /\ handles = [e \in Operations |-> {}]
    /\ faults = 0
    /\ anyErr = FALSE
    /\ issued = <<>>
    /\ clock = 0
    /\ dirs = EntryStates
    /\ strays = {}
    /\ init = [root |-> TRUE, err |-> Nil]
    /\ MapFS = {}
    /\ scan = NoScan

NextPair ==
    \E e \in Operations :
        \/ /\ pc[e] = "none"
           /\ \E operation \in OperationTypes, source \in Sources,
                 target \in Targets :
                CreateEntry(e, operation, source, target)
        \/ UpdateEntry(e)
        \/ \E newState \in TerminalStates : MoveEntry(e, newState)
        \/ MoveEntryWrite(e)
        \/ MoveEntryRemove(e)
        \/ /\ Len(mem[e].steps) < MaxPairSteps
           /\ \E stepType \in StepTypes : AddStep(e, stepType)
        \/ \E h \in handles[e], details \in DetailTexts : CompleteStep(e, h, details)
        \/ \E err \in ErrTexts : FailEntry(e, err)
        \/ CompleteEntry(e)

SpecPair == InitPair /\ [][NextPair]_vars

----------------------------------------------------------------------------
(* run() of the add, commit and push operations *)

RunOperations == {"add", "commit", "push"}

\* run() of add calling createSymlink before copyAndVerify.
StepFunctions_SymlinkFirst(operation) ==
    IF operation = "add"
    THEN <<"verifySource", "createSymlink", "copyAndVerify", "gitAdd">>
    ELSE <<operation>>

\* The step functions run() calls between initialize() and complete().
StepFunctions(operation) ==
    IF operation = "add"
    THEN <<"verifySource", "copyAndVerify", "createSymlink", "gitAdd">>
    ELSE <<operation>>

\* The types of the steps a step function adds, in the order of its
\* AddStepToCurrentEntry calls; copyAndVerifyFile and copyAndVerifyDirectory
\* add the same two.
StepsOf(fn) ==
    CASE fn = "verifySource" -> <<"verify">>
      [] fn = "copyAndVerify" -> <<"copy", "verify">>
      [] fn = "createSymlink" -> <<"symlink">>
      [] OTHER -> <<"git">>

RECURSIVE StepsFrom(_, _)
StepsFrom(fns, i) ==
    IF i > Len(fns) THEN <<>> ELSE StepsOf(fns[i]) \o StepsFrom(fns, i + 1)

\* The AddStepToCurrentEntry calls of a run in which every step succeeds.
Plan(operation) == StepsFrom(StepFunctions(operation), 1)

\* No operation has run: the journal directory does not exist yet.
InitRun ==
    /\ mem = [e \in Ids |-> NoEntry]
    /\ disk = [dir \in EntryStates |-> [e \in Ids |-> <<>>]]
    /\ pc = [e \in Ids |-> "none"]
    /\ ret = [e \in Ids |-> NoCall]
    /\ handles = [e \in Ids |-> {}]
    /\ faults = 0
    /\ anyErr = FALSE
    /\ issued = <<>>
    /\ clock = 0
    /\ dirs = {}
    /\ strays = {}
    /\ init = [root |-> FALSE, err |-> ""]
    /\ MapFS = {}
    /\ scan = NoScan

\* run() is a sequence of journal calls, each made after the one before it
\* has returned nil: the last call and its result say where run() is.
After(e, op) == pc[e] = "idle" /\ ret[e].op = op /\ ret[e].err = Nil

\* step, verifyStep: the *Step the last AddStepToCurrentEntry has returned.
step(e) == CHOOSE h \in handles[e] : h.idx = Len(mem[e].steps)

\* initialize() after jm.Initialize() has returned nil: CreateEntry, for add
\* with op.path and relPath, for commit and push with empty paths.
initialize(e, operation) ==
    /\ pc[e] = "none"
    /\ ret[e] = NoCall
    /\ init.err = Nil
    /\ IF operation = "add"
       THEN \E source \in Sources, target \in Targets :
                CreateEntry(e, operation, source, target)
       ELSE CreateEntry(e, operation, "", "")

\* AddStepToCurrentEntry: entry.AddStep on the entry of the context.
AddStepToCurrentEntry(e, stepType) ==
    /\ pc[e] = "idle"
    /\ LET grown == AppendStep(mem[e], NewStep(stepType)) IN
        /\ Persist(e, "AddStep", grown, ErrSavingStep, "")
        /\ handles' = [handles EXCEPT ![e] =
                         IF ret'[e].err = Nil THEN @ \cup {HandleOf(grown)} ELSE @]
    /\ UNCHANGED <<pc, issued, env>>

\* The next step function, or the second half of copyAndVerify, adds its
\* step: initialize() or the step before it has returned nil.
RunAddStep(e) ==
    /\ After(e, "CreateEntry") \/ After(e, "CompleteStep")
    /\ Len(mem[e].steps) < Len(Plan(mem[e].operation))
    /\ AddStepToCurrentEntry(e, Plan(mem[e].operation)[Len(mem[e].steps) + 1])

RunStartStep(e) ==
    /\ After(e, "AddStep")
    /\ StartStep(e, step(e))

\* CompleteStep on the first handle of the run, not on the last one.
RunCompleteStep_FirstHandle(e) ==
    /\ After(e, "StartStep")
    /\ \E details \in DetailTexts :
        CompleteStep(e, CHOOSE h \in handles[e] : h.idx = 1, details)

\* The work of the step has succeeded.
RunCompleteStep(e) ==
    /\ After(e, "StartStep")
    /\ \E details \in DetailTexts : CompleteStep(e, step(e), details)

\* FailEntry where every step takes it for the last step.
RunFailEntry_AnyTime(e) ==
    /\ pc[e] = "idle"
    /\ ret[e].op \in {"AddStep", "StartStep", "CompleteStep"}
    /\ ret[e].err = Nil
    /\ \E err \in ErrTexts : FailEntry(e, err)

\* The failed work marked on the step alone, with FailStep.
RunFailEntry_FailStep(e) ==
    /\ After(e, "StartStep")
    /\ \E err \in ErrTexts : FailStep(e, step(e), err)

\* The work of the step has failed; commit() and push() also fail the entry
\* when CompleteStep has returned an error.
RunFailEntry(e) ==
    /\ \/ After(e, "StartStep")
       \/ /\ mem[e].operation \in {"commit", "push"}
          /\ pc[e] = "idle"
          /\ ret[e].op = "CompleteStep"
          /\ ret[e].err # Nil
    /\ \E err \in ErrTexts : FailEntry(e, err)

\* complete() before the last step function has returned.
complete_Early(e) ==
    /\ After(e, "CompleteStep") \/ After(e, "StartStep")
    /\ Len(mem[e].steps) = Len(Plan(mem[e].operation))
    /\ CompleteEntry(e)

\* complete(): every step function has returned nil.
complete(e) ==
    /\ After(e, "CompleteStep")
    /\ Len(mem[e].steps) = Len(Plan(mem[e].operation))
    /\ CompleteEntry(e)

\* run() has returned.
Returned(e) ==
    \/ pc[e] = "none" /\ ret[e].op = "CreateEntry" /\ ret[e].err # Nil
    \/ pc[e] = "idle" /\ ret[e].op \in {"CompleteEntry", "FailEntry"}
    \/ pc[e] = "idle" /\ ret[e].op \in {"AddStep", "StartStep"} /\ ret[e].err # Nil
    \/ /\ pc[e] = "idle" /\ ret[e].op = "CompleteStep" /\ ret[e].err # Nil
       /\ mem[e].operation = "add"

\* What run() has returned: nil after complete() has, an error otherwise.
RunErr(e) ==
    IF ret[e].op = "CompleteEntry" /\ ret[e].err = Nil THEN Nil ELSE ErrIO

NextRun ==
    \/ /\ \E e \in Ids : pc[e] = "none" /\ ret[e] = NoCall
       /\ Initialize
    \/ \E e \in Ids :
        \/ \E operation \in RunOperations : initialize(e, operation)
        \/ RunAddStep(e)
        \/ RunStartStep(e)
        \/ RunCompleteStep(e)
        \/ RunFailEntry(e)
        \/ complete(e)
        \/ MoveEntryWrite(e)
        \/ MoveEntryRemove(e)

\* run() runs in one goroutine of a process that does nothing else: it
\* takes its next step as long as it has one.
SpecRun == InitRun /\ [][NextRun]_vars /\ WF_vars(NextRun)

----------------------------------------------------------------------------
(* MoveEntry with every EntryState a caller can pass *)

\* EntryState is a string type: a value that is none of the three constants
\* is a valid argument of MoveEntry.
ForeignStates == {"archived"}
AnyStates == EntryStates \cup ForeignStates

\* The directories of {journalDir} a path of saveEntry can name.
InitMove ==
    /\ mem = [e \in Ids |-> NoEntry]
    /\ disk = [dir \in AnyStates |-> [e \in Ids |-> <<>>]]
    /\ pc = [e \in Ids |-> "none"]
    /\ ret = [e \in Ids |-> NoCall]
    /\ handles = [e \in Ids |-> {}]
    /\ faults = 0
    /\ anyErr = FALSE
    /\ issued = <<>>
    /\ clock = 0
    /\ dirs = EntryStates
    /\ strays = {}
    /\ init = [root |-> TRUE, err |-> Nil]
    /\ MapFS = {}
    /\ scan = NoScan

NextMove ==
    \E e \in Ids :
        \/ /\ pc[e] = "none"
           /\ \E operation \in OperationTypes, source \in Sources,
                 target \in Targets :
                CreateEntry(e, operation, source, target)
        \/ UpdateEntry(e)
        \/ \E newState \in AnyStates : MoveEntry(e, newState)
        \/ MoveEntryRemove(e)
        \/ \E stepType \in StepTypes : AddStep(e, stepType)
        \/ \E h \in handles[e] : StartStep(e, h)

SpecMove == InitMove /\ [][NextMove]_vars

----------------------------------------------------------------------------
(* MockFileSystem: a map from names to files *)

\* Names are paths of at most MaxDepth components.
Components == {"a", "b"}
Names == UNION {[1..n -> Components] : n \in 1..MaxDepth}

\* filepath.Dir(name): the name without its last component.
Dir(name) == SubSeq(name, 1, Len(name) - 1)

\* NewMockFileSystem with an empty map; the journal is not involved.
InitMock ==
    /\ mem = [e \in Ids |-> NoEntry]
    /\ disk = [dir \in EntryStates |-> [e \in Ids |-> <<>>]]
    /\ pc = [e \in Ids |-> "none"]
    /\ ret = [e \in Ids |-> NoCall]
    /\ handles = [e \in Ids |-> {}]
    /\ faults = 0
    /\ anyErr = FALSE
    /\ issued = <<>>
    /\ clock = 0
    /\ dirs = EntryStates
    /\ strays = {}
    /\ init = [root |-> TRUE, err |-> Nil]
    /\ MapFS = {}
    /\ scan = NoScan

\* What the calls on the mock leave alone.
journal ==
    <<mem, disk, pc, ret, handles, faults, anyErr, issued, clock, dirs, strays,
      init, scan>>

\* Stat succeeds for the names the map holds.
MockStat(name) == name \in MapFS

\* WriteFile and MkdirAll put the name in the map, and nothing for its
\* parents.
MockWriteFile(name) ==
    /\ MapFS' = MapFS \cup {name}
    /\ UNCHANGED journal

\* RemoveAll deletes the names that are path or have path as their Dir.
MockRemoveAll(path) ==
    /\ MapFS' = {name \in MapFS : ~(name = path \/ Dir(name) = path)}
    /\ UNCHANGED journal

NextMock ==
    \E name \in Names :
        \/ MockWriteFile(name)
        \/ MockRemoveAll(name)

SpecMock == InitMock /\ [][NextMock]_vars

----------------------------------------------------------------------------
(* CompleteEntry or FailEntry after a MoveEntry that could not write *)

\* MoveEntry has returned "error writing entry" on a current entry: the
\* in-memory state is the terminal one, the only file is in current.
Stranded(e) ==
    /\ pc[e] = "idle"
    /\ ret[e].op = "MoveEntry"
    /\ ret[e].err = ErrWritingEntry
    /\ mem[e].state \in TerminalStates
    /\ \A dir \in EntryStates : Stat(disk, dir, e) <=> dir = EntryStateCurrent

\* The caller has not yet gone on to CompleteEntry or FailEntry.
Working(e) == ret[e].op \notin {"CompleteEntry", "FailEntry"}

\* The caller works on its entry, moves it itself, and when that move
\* cannot write goes on with the same in-memory entry.
NextRetry ==
    \E e \in Ids :
        \/ /\ pc[e] = "none"
           /\ \E operation \in OperationTypes, source \in Sources,
                 target \in Targets :
                CreateEntry(e, operation, source, target)
        \/ Working(e) /\ \E stepType \in StepTypes : AddStep(e, stepType)
        \/ Working(e) /\ \E h \in handles[e] : StartStep(e, h)
        \/ Working(e) /\ \E newState \in TerminalStates : MoveEntry(e, newState)
        \/ MoveEntryWrite(e)
        \/ MoveEntryRemove(e)
        \/ Stranded(e) /\ CompleteEntry(e)
        \/ Stranded(e) /\ \E err \in ErrTexts : FailEntry(e, err)

SpecRetry == Init /\ [][NextRetry]_vars

----------------------------------------------------------------------------
(* ListEntries("") step by step, while entries are moved *)

\* What a step of the scan leaves alone.
store ==
    <<mem, disk, pc, ret, handles, faults, anyErr, issued, clock, dirs, strays,
      init, MapFS>>

\* The ids in S in the order of ReadDir, which sorts by file name.
RECURSIVE ByName(_)
ByName(S) ==
    IF S = {} THEN <<>>
    ELSE LET first == CHOOSE n \in S : \A m \in S : n <= m
         IN  <<first>> \o ByName(S \ {first})

\* The ids that have a file readEntry decodes in current.
InCurrent ==
    {e \in Ids : /\ Stat(disk, EntryStateCurrent, e)
                 /\ readEntryErr(disk, EntryStateCurrent, e) = Nil}

\* ListEntries("") is called: entries is empty and the loop is before its
\* first partition.
ListEntriesCall ==
    /\ scan.at = 0
    /\ scan' = [NoScan EXCEPT !.at = 1, !.before = InCurrent]
    /\ UNCHANGED store

\* Open and ReadDir of the partition the loop is at: a directory that
\* cannot be opened is skipped, the names without .json are left out.
ListEntriesReadDir ==
    LET dir == ScanDirs("")[scan.at] IN
    /\ scan.at \in 1..Len(ScanDirs(""))
    /\ ~scan.listed
    /\ ~scan.returned
    /\ scan' = IF dir \notin dirs
               THEN [scan EXCEPT !.at = @ + 1]
               ELSE [scan EXCEPT !.listed = TRUE,
                                 !.names = ByName({n.id : n \in
                                    {m \in ReadDir(dir) : m.ext = JSONExt}})]
    /\ UNCHANGED store

\* readEntry of the next name ReadDir gave, as the file is now: an error
\* ends the call, an entry is appended; after the last name the loop goes
\* to the next partition.
ListEntriesReadEntry ==
    LET dir == ScanDirs("")[scan.at] IN
    /\ scan.at \in 1..Len(ScanDirs(""))
    /\ scan.listed
    /\ ~scan.returned
    /\ scan' =
        IF scan.names = <<>>
        THEN [scan EXCEPT !.at = @ + 1, !.listed = FALSE]
        ELSE IF \/ ~Stat(disk, dir, Head(scan.names))
                \/ readEntryErr(disk, dir, Head(scan.names)) # Nil
             THEN [scan EXCEPT !.returned = TRUE, !.err = ErrReadingEntry,
                               !.names = <<>>, !.entries = <<>>]
             ELSE [scan EXCEPT !.names = Tail(@),
                               !.entries = Append(@,
                                    readEntry(disk, dir, Head(scan.names)))]
    /\ UNCHANGED store

\* return entries, nil after the last partition.
ListEntriesReturn ==
    /\ scan.at > Len(ScanDirs(""))
    /\ ~scan.returned
    /\ scan' = [scan EXCEPT !.returned = TRUE]
    /\ UNCHANGED store

\* os.WriteFile of a move has created the new file and not written its
\* data yet: the file is there and does not decode.
WriteFileCreate(e, newState) ==
    /\ pc[e] = "idle"
    /\ mem[e].state = EntryStateCurrent
    /\ \A dir \in TerminalStates : ~Stat(disk, dir, e)
    /\ disk' = WriteFile(disk, newState, e, NotJSON)
    /\ UNCHANGED <<mem, pc, ret, handles, faults, anyErr, issued, env>>

\* The file WriteFileCreate made, if any, is the one the move writes.
Created(e, newState) ==
    \A dir \in TerminalStates : Stat(disk, dir, e) => dir = newState

NextScan ==
    \/ ListEntriesCall
    \/ ListEntriesReadDir
    \/ ListEntriesReadEntry
    \/ ListEntriesReturn
    \/ \E e \in Ids :
        \/ /\ pc[e] = "none"
           /\ \E operation \in OperationTypes, source \in Sources,
                 target \in Targets :
                CreateEntry(e, operation, source, target)
        \/ \E newState \in TerminalStates : WriteFileCreate(e, newState)
        \/ \E newState \in TerminalStates :
            /\ mem[e].state = EntryStateCurrent
            /\ Created(e, newState)
            /\ MoveEntry(e, newState)
        \/ MoveEntryRemove(e)

SpecScan == Init /\ [][NextScan]_vars

----------------------------------------------------------------------------
(* The add operation and the files it works on *)

\* What the file system holds at op.path and at targetPath: the original,
\* the symlink that replaces it, and the copy under {DotmanDir}/data.
Original(source) == [name |-> <<source>>, mode |-> "file"]
Link(source) == [name |-> <<source>>, mode |-> "link"]
Copy(target) == [name |-> <<"data", target>>, mode |-> "file"]

\* fsys.Stat(path) succeeds.
Exists(name) == \E f \in MapFS : f.name = name

\* The path to add exists or it does not.
InitAdd ==
    /\ mem = [e \in Ids |-> NoEntry]
    /\ disk = [dir \in EntryStates |-> [e \in Ids |-> <<>>]]
    /\ pc = [e \in Ids |-> "none"]
    /\ ret = [e \in Ids |-> NoCall]
    /\ handles = [e \in Ids |-> {}]
    /\ faults = 0
    /\ anyErr = FALSE
    /\ issued = <<>>
    /\ clock = 0
    /\ dirs = {}
    /\ strays = {}
    /\ init = [root |-> FALSE, err |-> ""]
    /\ MapFS \in SUBSET {Original(source) : source \in Sources}
    /\ scan = NoScan

\* The step function of the add on entry e is at the work of a step of
\* this type: its StartStep has returned nil.
AtWork(e, stepType) ==
    /\ After(e, "StartStep")
    /\ mem[e].operation = "add"
    /\ mem[e].steps[Len(mem[e].steps)].type = stepType

\* copyFile, copyDir: the copy is written at targetPath.
copyFile(e) ==
    /\ AtWork(e, "copy")
    /\ Exists(<<mem[e].source>>)
    /\ MapFS' = MapFS \cup {Copy(mem[e].target)}
    /\ UNCHANGED journal

\* op.fsys.RemoveAll(op.path) of createSymlink.
RemoveAll(e) ==
    /\ AtWork(e, "symlink")
    /\ Link(mem[e].source) \notin MapFS
    /\ MapFS' = {f \in MapFS : f.name # <<mem[e].source>>}
    /\ UNCHANGED journal

\* op.fsys.Symlink(targetPath, op.path) of createSymlink: the name is free.
Symlink(e) ==
    /\ AtWork(e, "symlink")
    /\ ~Exists(<<mem[e].source>>)
    /\ MapFS' = MapFS \cup {Link(mem[e].source)}
    /\ UNCHANGED journal

\* The work of the running step has returned no error: Stat of the source,
\* the copy, its verification, RemoveAll and Symlink, the git calls.
WorkDone(e) ==
    LET n == Len(mem[e].steps)
        stepType == mem[e].steps[n].type
    IN  /\ After(e, "StartStep")
        /\ CASE stepType = "verify" /\ n = 1 -> Exists(<<mem[e].source>>)
             [] stepType = "copy" -> Copy(mem[e].target) \in MapFS
             [] stepType = "verify" /\ n > 1 ->
                    /\ Exists(<<mem[e].source>>)
                    /\ Copy(mem[e].target) \in MapFS
             [] stepType = "symlink" -> Link(mem[e].source) \in MapFS
             [] OTHER -> TRUE

\* The work of the running step can still return an error.
WorkFails(e) ==
    /\ After(e, "StartStep")
    /\ ~AtWork(e, "symlink") \/ Link(mem[e].source) \notin MapFS

NextAdd ==
    \/ /\ \E e \in Ids : pc[e] = "none" /\ ret[e] = NoCall
       /\ Initialize
    \/ \E e \in Ids :
        \/ initialize(e, "add")
        \/ RunAddStep(e)
        \/ RunStartStep(e)
        \/ copyFile(e)
        \/ RemoveAll(e)
        \/ Symlink(e)
        \/ WorkDone(e) /\ RunCompleteStep(e)
        \/ WorkFails(e) /\ RunFailEntry(e)
        \/ complete(e)
        \/ MoveEntryWrite(e)
        \/ MoveEntryRemove(e)

SpecAdd == InitAdd /\ [][NextAdd]_vars

----------------------------------------------------------------------------
(* Ids as generateOperationID makes them *)

\* fmt.Sprintf("%s-%d", operation, time.Now().UnixNano()): the id is the
\* pair of the operation type and the clock reading, and nothing else.
generateOperationID(operation, nano) == <<operation, nano>>

Clock == 0..MaxClock
IdSpace == {generateOperationID(operation, nano) :
                operation \in AllOperationTypes, nano \in Clock}

InitIds ==
    /\ mem = [e \in IdSpace |-> NoEntry]
    /\ disk = [dir \in EntryStates |-> [e \in IdSpace |-> <<>>]]
    /\ pc = [e \in IdSpace |-> "none"]
    /\ ret = [e \in IdSpace |-> NoCall]
    /\ handles = [e \in IdSpace |-> {}]
    /\ faults = 0
    /\ anyErr = FALSE
    /\ issued = <<>>
    /\ clock = 0
    /\ dirs = EntryStates
    /\ strays = {}
    /\ init = [root |-> TRUE, err |-> Nil]
    /\ MapFS = {}
    /\ scan = NoScan

\* The clock moves on between two calls, or it does not.
Tick ==
    /\ clock < MaxClock
    /\ clock' = clock + 1
    /\ UNCHANGED <<mem, disk, pc, ret, handles, faults, anyErr, issued, dirs,
                   strays, init, MapFS, scan>>

\* A CreateEntry call at the present clock reading, no call on an entry of
\* the same id being under way.
CreateEntryNow(operation, source, target) ==
    /\ Len(issued) < MaxCreates
    /\ pc[generateOperationID(operation, clock)] \in {"none", "idle"}
    /\ CreateEntry(generateOperationID(operation, clock), operation, source,
                   target)

NextIds ==
    \/ Tick
    \/ \E operation \in AllOperationTypes, source \in Sources,
          target \in Targets :
            CreateEntryNow(operation, source, target)
    \/ \E e \in IdSpace :
        \/ \E stepType \in StepTypes : AddStep(e, stepType)
        \/ CompleteEntry(e)
        \/ MoveEntryWrite(e)
        \/ MoveEntryRemove(e)

SpecIds == InitIds /\ [][NextIds]_vars

----------------------------------------------------------------------------
(* Properties *)

\* The partitions that hold a file for id.
Files(d, id) == {dir \in EntryStates : Stat(d, dir, id)}

\* The operation still holds entry e after this step.
Held(e) == pc[e] \in {"idle", "move", "remove"}

\* C1: after calls that all returned without error, every id CreateEntry
\* returned has a file in exactly one partition.
C1_ExactlyOnePartition ==
    \A e \in Ids :
        (pc[e] = "idle" /\ ~anyErr) => Cardinality(Files(disk, e)) = 1

\* C2: once an entry's state is completed or failed, in memory or in a file,
\* no call changes it.
C2_TerminalIsFinal ==
    [][\A e \in Ids :
        (pc[e] = "idle" /\ pc'[e] # "dead" /\ mem[e].state \in TerminalStates)
            => /\ mem'[e].state = mem[e].state
               /\ (Files(disk, e) # {} /\ Files(disk, e) \subseteq TerminalStates)
                    => Files(disk', e) = Files(disk, e)]_vars

\* C4: a step's status only moves pending -> running -> completed or failed.
StatusMoves ==
    {<<StepStatusPending, StepStatusRunning>>,
     <<StepStatusRunning, StepStatusCompleted>>,
     <<StepStatusRunning, StepStatusFailed>>}

C4_StepStatusOrder ==
    [][\A e \in Ids :
        (Held(e) /\ pc'[e] # "dead")
            => \A i \in 1..Len(mem[e].steps) :
                \/ mem'[e].steps[i].status = mem[e].steps[i].status
                \/ <<mem[e].steps[i].status, mem'[e].steps[i].status>>
                       \in StatusMoves]_vars

\* C5: the step list of an entry that has reached completed or failed is
\* frozen in memory and in its file, and the steps of a current entry are
\* only appended to.
C5_TerminalStepsFrozen ==
    [][\A e \in Ids :
        (pc[e] = "idle" /\ pc'[e] # "dead")
            => /\ (mem[e].state \in TerminalStates /\ Stat(disk, mem[e].state, e))
                    => /\ mem'[e].steps = mem[e].steps
                       /\ \A dir \in TerminalStates :
                            (Stat(disk, dir, e) /\ Stat(disk', dir, e))
                                => readEntry(disk', dir, e).steps
                                     = readEntry(disk, dir, e).steps
               /\ mem[e].state = EntryStateCurrent
                    => /\ Len(mem'[e].steps) >= Len(mem[e].steps)
                       /\ \A i \in 1..Len(mem[e].steps) :
                            mem'[e].steps[i].type = mem[e].steps[i].type]_vars

\* C3: a move out of current writes the file in the new partition before it
\* removes the one in current, so from the write on, whatever happens (the
\* removal, its failure, a crash), the id is in the new partition alone or
\* in both, never in none.
C3_WriteBeforeRemove ==
    [][\A e \in Ids :
        /\ (/\ pc[e] \in {"idle", "move"}
            /\ pc'[e] = "remove"
            /\ ret'[e].old = EntryStateCurrent
            /\ ret'[e].new \in TerminalStates
            /\ Files(disk, e) = {EntryStateCurrent})
                => Files(disk', e) = {EntryStateCurrent, ret'[e].new}
        /\ (/\ pc[e] \in {"remove", "dead"}
            /\ ret[e].old = EntryStateCurrent
            /\ ret[e].new \in TerminalStates
            /\ Files(disk, e) = {EntryStateCurrent, ret[e].new})
                => Files(disk', e) \in {{EntryStateCurrent, ret[e].new}, {ret[e].new}}
      ]_vars

\* A crash between the write and the removal has left the id in both.
C3_Witness ==
    \E e \in Ids :
        /\ pc[e] = "dead"
        /\ ret[e].old = EntryStateCurrent
        /\ ret[e].new \in TerminalStates
        /\ Files(disk, e) = {EntryStateCurrent, ret[e].new}

\* How often ListEntries reports id.
Occurrences(entries, id) ==
    Cardinality({i \in 1..Len(entries) : entries[i].id = id})

\* C6 as stated: an id in two partitions is reported once, GetEntry returning
\* the terminal copy.
C6_ReadersDeduplicate ==
    \A e \in Ids :
        Cardinality(Files(disk, e)) >= 2
            => /\ GetEntry(e).state \in TerminalStates
               /\ Occurrences(ListEntries(""), e) = 1

\* C6 amended: GetEntry returns the copy of the first partition in the order
\* current, completed, failed (the current copy when there is one), and
\* ListEntries("") reports the id once for every partition that holds it.
C6_ReadersReportEveryCopy ==
    \A e \in Ids :
        Cardinality(Files(disk, e)) >= 2
            => /\ GetEntry(e).state =
                    (IF EntryStateCurrent \in Files(disk, e)
                     THEN EntryStateCurrent ELSE EntryStateCompleted)
               /\ Occurrences(ListEntries(""), e) = Cardinality(Files(disk, e))

\* A failed removal has left the id in current and in a terminal partition.
C6_Witness ==
    \E e \in Ids :
        /\ pc[e] = "idle"
        /\ ret[e].err = ErrRemovingOld
        /\ EntryStateCurrent \in Files(disk, e)
        /\ Files(disk, e) \cap TerminalStates # {}

C8_FailEntryNoSteps ==
    [][\A e \in Ids :
        (pc[e] = "idle" /\ Len(mem[e].steps) = 0 /\ ret'[e].op = "FailEntry")
            => /\ ret'[e].err = ErrNoSteps
               /\ pc'[e] = "idle"
               /\ mem'[e] = mem[e]
               /\ \A dir \in EntryStates : disk'[dir][e] = disk[dir][e]]_vars

\* FailEntry has been refused on a fresh entry, which is still in current.
C8_Witness ==
    \E e \in Ids :
        /\ pc[e] = "idle"
        /\ ret[e].op = "FailEntry"
        /\ ret[e].err = ErrNoSteps
        /\ mem[e].state = EntryStateCurrent
        /\ mem[e].steps = <<>>
        /\ Files(disk, e) = {EntryStateCurrent}

\* C9: a FailEntry(err) that returned nil on a current entry has marked the
\* last step failed with err's text and an end time, and has moved the entry:
\* its state is failed, its file is in failed, holds the entry as it is in
\* memory, and is not in current.
C9_FailEntryMoves ==
    \A e \in Ids :
        (/\ pc[e] = "idle"
         /\ ret[e].op = "FailEntry"
         /\ ret[e].err = Nil
         /\ ret[e].old = EntryStateCurrent)
            => LET n == Len(mem[e].steps) IN
               /\ n >= 1
               /\ mem[e].steps[n].status = StepStatusFailed
               /\ mem[e].steps[n].error = ret[e].arg
               /\ mem[e].steps[n].end_time = Now
               /\ mem[e].state = EntryStateFailed
               /\ disk[EntryStateFailed][e] = <<Marshal(mem[e])>>
               /\ ~Stat(disk, EntryStateCurrent, e)

\* FailEntry has succeeded on a current entry whose last step was running.
C9_Witness ==
    \E e \in Ids :
        /\ pc[e] = "idle"
        /\ ret[e].op = "FailEntry"
        /\ ret[e].err = Nil
        /\ ret[e].old = EntryStateCurrent
        /\ mem[e].steps[Len(mem[e].steps)].details = ""
        /\ Files(disk, e) = {EntryStateFailed}

\* C10: no part of FailEntry changes a step before the last one, in memory
\* or in the file it writes.
C10_OnlyLastStep ==
    [][\A e \in Ids :
        (/\ Held(e)
         /\ pc'[e] # "dead"
         /\ ret'[e].op = "FailEntry"
         /\ Len(mem[e].steps) >= 2)
            => /\ Len(mem'[e].steps) = Len(mem[e].steps)
               /\ \A i \in 1..(Len(mem[e].steps) - 1) :
                    /\ mem'[e].steps[i] = mem[e].steps[i]
                    /\ \A dir \in EntryStates :
                        (disk'[dir][e] # disk[dir][e] /\ Stat(disk', dir, e))
                            => ReadFile(disk', dir, e).steps[i] = mem[e].steps[i]
      ]_vars

\* FailEntry has succeeded on an entry whose first step stays completed.
C10_Witness ==
    \E e \in Ids :
        /\ pc[e] = "idle"
        /\ ret[e].op = "FailEntry"
        /\ ret[e].err = Nil
        /\ Len(mem[e].steps) >= 2
        /\ mem[e].steps[1].status = StepStatusCompleted
        /\ mem[e].steps[Len(mem[e].steps)].status = StepStatusFailed

\* C11: with no storage failure, CompleteEntry on a current entry, whatever
\* its steps, first persists the entry as it is, then moves it: it returns
\* nil, the steps are those of before the call, and in a journal that holds
\* no other entry ListEntries("") is that one entry, in state completed.
C11_CompleteEntrySucceeds ==
    [][\A e \in Ids :
        /\ (/\ pc[e] = "idle"
            /\ mem[e].state = EntryStateCurrent
            /\ ret'[e].op = "CompleteEntry"
            /\ ret'[e] # ret[e]
            /\ faults' = 0)
                => /\ pc'[e] = "move"
                   /\ mem'[e] = mem[e]
                   /\ disk' = saveEntry(disk, mem[e])
        /\ (/\ pc[e] = "move"
            /\ pc'[e] \notin {"move", "dead"}
            /\ ret[e].op = "CompleteEntry"
            /\ mem[e].state = EntryStateCurrent
            /\ faults' = 0)
                => /\ pc'[e] = "remove"
                   /\ mem'[e] = [mem[e] EXCEPT !.state = EntryStateCompleted]
        /\ (/\ pc[e] = "remove"
            /\ pc'[e] \notin {"remove", "dead"}
            /\ ret[e].op = "CompleteEntry"
            /\ ret[e].old = EntryStateCurrent
            /\ faults' = 0)
                => /\ pc'[e] = "idle"
                   /\ ret'[e].err = Nil
                   /\ mem'[e] = mem[e]
                   /\ (\A o \in Ids \ {e} : Files(disk', o) = {})
                        => /\ Len(ListEntries("")') = 1
                           /\ ListEntries("")'[1].id = e
                           /\ ListEntries("")'[1].state = EntryStateCompleted
                           /\ ListEntries("")'[1].steps = mem[e].steps
      ]_vars

\* CompleteEntry has returned nil on an entry whose first step is still
\* pending, no storage call having failed.
C11_Witness ==
    \E e \in Ids :
        /\ pc[e] = "idle"
        /\ ret[e].op = "CompleteEntry"
        /\ ret[e].err = Nil
        /\ ret[e].old = EntryStateCurrent
        /\ faults = 0
        /\ Len(mem[e].steps) >= 1
        /\ mem[e].steps[1].status = StepStatusPending
        /\ Len(ListEntries("")) = 1

\* C12: MoveEntry(entry, completed) on a current entry keeps the steps, and
\* once it has returned nil ListEntries("current") does not hold the id,
\* ListEntries("completed") holds it exactly once, and GetEntry returns it in
\* state completed with the steps the entry had.
C12_MoveToCompleted ==
    [][\A e \in Ids :
        /\ (/\ pc[e] = "idle"
            /\ pc'[e] = "remove"
            /\ ret'[e].op = "MoveEntry")
                => mem'[e].steps = mem[e].steps
        /\ (/\ pc[e] = "remove"
            /\ pc'[e] = "idle"
            /\ ret[e].op = "MoveEntry"
            /\ ret[e].old = EntryStateCurrent
            /\ ret[e].new = EntryStateCompleted
            /\ ret'[e].err = Nil)
                => /\ Occurrences(ListEntries(EntryStateCurrent)', e) = 0
                   /\ Occurrences(ListEntries(EntryStateCompleted)', e) = 1
                   /\ GetEntry(e)'.id = e
                   /\ GetEntry(e)'.state = EntryStateCompleted
                   /\ GetEntry(e)'.steps = mem[e].steps
      ]_vars

\* MoveEntry has moved a current entry with a step to completed.
C12_Witness ==
    \E e \in Ids :
        /\ pc[e] = "idle"
        /\ ret[e].op = "MoveEntry"
        /\ ret[e].err = Nil
        /\ ret[e].old = EntryStateCurrent
        /\ ret[e].new = EntryStateCompleted
        /\ Len(mem[e].steps) >= 1
        /\ Files(disk, e) = {EntryStateCompleted}

\* C13: the entry GetEntry reads back right after CreateEntry equals the
\* entry CreateEntry returned in every field, whatever the operation type,
\* the source and the target.
C13_RoundTrip ==
    \A e \in Ids :
        (pc[e] = "idle" /\ ret[e].op = "CreateEntry" /\ ret[e].err = Nil)
            => /\ GetEntry(e).id = mem[e].id
               /\ GetEntry(e).timestamp = mem[e].timestamp
               /\ GetEntry(e).operation = mem[e].operation
               /\ GetEntry(e).source = mem[e].source
               /\ GetEntry(e).target = mem[e].target
               /\ GetEntry(e).state = mem[e].state
               /\ GetEntry(e).checksum = mem[e].checksum
               /\ GetEntry(e).steps = mem[e].steps

\* C14: the entry CreateEntry returns is in state current, has no steps and
\* has the call's operation, source and target; its file is in current,
\* holds that entry, and the id has no file in another partition.
C14_CreateEntry ==
    \A e \in Ids :
        (pc[e] = "idle" /\ ret[e].op = "CreateEntry" /\ ret[e].err = Nil)
            => /\ mem[e].id = e
               /\ mem[e].state = EntryStateCurrent
               /\ mem[e].steps = <<>>
               /\ mem[e].operation = ret[e].operation
               /\ mem[e].source = ret[e].source
               /\ mem[e].target = ret[e].target
               /\ disk[EntryStateCurrent][e] = <<Marshal(mem[e])>>
               /\ Files(disk, e) = {EntryStateCurrent}

\* CreateEntry("remove", "a/b", "c/d") has returned an entry.
C14_Witness ==
    \E e \in Ids :
        /\ pc[e] = "idle"
        /\ ret[e].op = "CreateEntry"
        /\ ret[e].err = Nil
        /\ ret[e].operation = "remove"
        /\ ret[e].source = "a/b"
        /\ ret[e].target = "c/d"
        /\ Stat(disk, EntryStateCurrent, e)

\* The ids with a file in a partition, and the partitions a filter names.
Stored(dir) == {e \in Ids : Stat(disk, dir, e)}
Scanned(filter) == IF filter = "" THEN EntryStates ELSE {filter}

\* C15: GetEntry returns the entry of the file in current if there is one,
\* else of the file in completed, else of the file in failed, and it returns
\* "entry not found" exactly when the id has a file in none of the three.
C15_GetEntryOrder ==
    \A e \in Ids :
        /\ GetEntryErr(e) = ErrNotFound
                <=> \A dir \in EntryStates : ~Stat(disk, dir, e)
        /\ (/\ Stat(disk, EntryStateCurrent, e)
            /\ readEntryErr(disk, EntryStateCurrent, e) = Nil)
                => /\ GetEntryErr(e) = Nil
                   /\ GetEntry(e) = readEntry(disk, EntryStateCurrent, e)
        /\ (/\ ~Stat(disk, EntryStateCurrent, e)
            /\ Stat(disk, EntryStateCompleted, e)
            /\ readEntryErr(disk, EntryStateCompleted, e) = Nil)
                => /\ GetEntryErr(e) = Nil
                   /\ GetEntry(e) = readEntry(disk, EntryStateCompleted, e)
        /\ (/\ ~Stat(disk, EntryStateCurrent, e)
            /\ ~Stat(disk, EntryStateCompleted, e)
            /\ Stat(disk, EntryStateFailed, e)
            /\ readEntryErr(disk, EntryStateFailed, e) = Nil)
                => /\ GetEntryErr(e) = Nil
                   /\ GetEntry(e) = readEntry(disk, EntryStateFailed, e)

\* The id has readable files in completed and in failed and none in current.
C15_Witness ==
    \E e \in Ids :
        /\ Files(disk, e) = {EntryStateCompleted, EntryStateFailed}
        /\ readEntryErr(disk, EntryStateCompleted, e) = Nil
        /\ readEntryErr(disk, EntryStateFailed, e) = Nil
        /\ GetEntry(e).state = EntryStateCompleted

\* C16: when it returns no error, ListEntries with a partition as filter
\* returns the entries of the files of that partition and no other, and
\* ListEntries("") returns the entries of the files of all three partitions.
C16_ListEntriesFilter ==
    /\ \A filter \in EntryStates :
        ListEntriesErr(filter) = Nil
            => /\ Len(ListEntries(filter)) = Cardinality(Stored(filter))
               /\ \A e \in Stored(filter) :
                    \E i \in 1..Len(ListEntries(filter)) :
                        ListEntries(filter)[i] = readEntry(disk, filter, e)
    /\ ListEntriesErr("") = Nil
            => /\ Len(ListEntries("")) =
                    Cardinality(Stored(EntryStateCurrent))
                        + Cardinality(Stored(EntryStateCompleted))
                        + Cardinality(Stored(EntryStateFailed))
               /\ \A dir \in EntryStates : \A e \in Stored(dir) :
                    \E i \in 1..Len(ListEntries("")) :
                        ListEntries("")[i] = readEntry(disk, dir, e)

\* Two partitions hold a file: ListEntries("") returns both, a filter one.
C16_Witness ==
    \E e \in Ids :
        /\ Files(disk, e) = {EntryStateCurrent, EntryStateCompleted}
        /\ ListEntriesErr("") = Nil
        /\ Len(ListEntries("")) = Cardinality(Files(disk, e))
        /\ Len(ListEntries(EntryStateCompleted)) = 1
        /\ Len(ListEntries(EntryStateFailed)) = 0

\* C17 as stated: any file of a scanned partition directory that is
\* unreadable or not an entry, whatever its name, makes ListEntries return
\* an error and no entries.
C17_AnyBadFileFails ==
    \A filter \in EntryStates \cup {""} :
        (\E dir \in Scanned(filter) \cap dirs :
            \/ dir \in strays
            \/ \E e \in Stored(dir) : readEntryErr(disk, dir, e) # Nil)
            => /\ ListEntriesErr(filter) # Nil
               /\ ListEntries(filter) = <<>>

\* C17 amended: ListEntries returns an error, and then no entries, exactly
\* when a file named *.json of a scanned partition is unreadable or not an
\* entry; files with another name are passed over.
C17_BadJSONFileFails ==
    \A filter \in EntryStates \cup {""} :
        IF \E dir \in Scanned(filter) \cap dirs :
                \E e \in Stored(dir) : readEntryErr(disk, dir, e) # Nil
        THEN /\ ListEntriesErr(filter) # Nil
             /\ ListEntries(filter) = <<>>
        ELSE ListEntriesErr(filter) = Nil

\* A readable entry in one partition, a bad {id}.json in another.
C17_Witness ==
    \E e \in Ids : \E good, bad \in EntryStates :
        /\ good # bad
        /\ Stat(disk, good, e) /\ readEntryErr(disk, good, e) = Nil
        /\ Stat(disk, bad, e) /\ readEntryErr(disk, bad, e) # Nil
        /\ ListEntriesErr("") = ErrReadingEntry
        /\ ListEntriesErr(good) = Nil

\* C18: ListEntries on a partition without files returns no entries and no
\* error, also when the partition directory does not exist.
C18_EmptyPartition ==
    \A filter \in EntryStates :
        Stored(filter) = {}
            => /\ ListEntries(filter) = <<>>
               /\ ListEntriesErr(filter) = Nil

\* Initialize has failed before it made the last partition directory.
C18_Witness ==
    /\ EntryStateCurrent \in dirs
    /\ EntryStateFailed \notin dirs
    /\ ListEntries(EntryStateFailed) = <<>>
    /\ ListEntriesErr(EntryStateFailed) = Nil

\* The helpers that change an entry in place and save it.
PersistingCalls == {"AddStep", "StartStep", "CompleteStep", "FailStep", "UpdateEntry"}

C20_IdsNeverReused ==
    [][Len(issued') > Len(issued)
        => /\ \A i \in 1..Len(issued) : issued[i] # issued'[Len(issued')]
           /\ Files(disk, issued'[Len(issued')]) = {}]_vars

C22_InitializeIdempotent ==
    [][(init' # init \/ dirs' # dirs)
        => /\ disk' = disk
           /\ strays' = strays
           /\ dirs \subseteq dirs'
           /\ init.root => init'.root
           /\ faults' = faults => init'.err = Nil
           /\ init'.err = Nil => (init'.root /\ dirs' = EntryStates)]_vars

\* Initialize has been called again on a journal that holds an entry with a
\* step (a storage failure has stopped that call): the directories and the
\* entry's file are still there.
C22_Witness ==
    \E e \in Ids :
        /\ init.err = ErrIO
        /\ init.root
        /\ dirs = EntryStates
        /\ Len(mem[e].steps) >= 1
        /\ disk[EntryStateCurrent][e] = <<Marshal(mem[e])>>

\* A step has changed something of entry e: what its operation holds, the
\* call it is in, or one of the files of its id.
Touched(e) ==
    \/ mem'[e] # mem[e]
    \/ pc'[e] # pc[e]
    \/ ret'[e] # ret[e]
    \/ handles'[e] # handles[e]
    \/ \E dir \in EntryStates : disk'[dir][e] # disk[dir][e]

Retired(e) ==
    /\ Returned(e)
    /\ LET state == IF RunErr(e) = Nil THEN EntryStateCompleted
                    ELSE EntryStateFailed
       IN  /\ Files(disk, e) = {state}
           /\ readEntry(disk, state, e).state = state
           /\ mem[e].state = state

\* C24: provided no journal call fails, run() of add, commit and push
\* returns in the end, and when it has returned the entry initialize()
\* created is in completed if run() returned nil and in failed if it
\* returned an error, never in current.
C24_EventuallyRetired ==
    \A e \in Ids :
        /\ <>(anyErr \/ Retired(e))
        /\ [](Returned(e) /\ ~anyErr => Retired(e))

\* A step of a run has failed, no journal call has, and run() has returned
\* its error with the entry in failed.
C24_Witness ==
    \E e \in Ids :
        /\ ~anyErr
        /\ Returned(e)
        /\ RunErr(e) # Nil
        /\ Len(mem[e].steps) >= 2
        /\ Files(disk, e) = {EntryStateFailed}

\* Every step function of the operation has added its steps to the entry
\* and every step is completed.
AllStepsCompleted(entry) ==
    /\ Len(entry.steps) = Len(Plan(entry.operation))
    /\ \A i \in 1..Len(entry.steps) :
        /\ entry.steps[i].type = Plan(entry.operation)[i]
        /\ entry.steps[i].status = StepStatusCompleted

\* C25: run() calls complete() only when initialize() and every step
\* function have returned nil: the entry CompleteEntry is called on, and
\* every entry in the completed partition, has the steps of all the step
\* functions, all of them completed.
C25_CompletedMeansAllSteps ==
    \A e \in Ids :
        /\ ret[e].op = "CompleteEntry" => AllStepsCompleted(mem[e])
        /\ Stat(disk, EntryStateCompleted, e)
            => AllStepsCompleted(readEntry(disk, EntryStateCompleted, e))

\* An add has run to its end: its entry is in completed with five steps.
C25_Witness ==
    \E e \in Ids :
        /\ After(e, "CompleteEntry")
        /\ mem[e].operation = "add"
        /\ Files(disk, e) = {EntryStateCompleted}
        /\ Len(readEntry(disk, EntryStateCompleted, e).steps) = Len(Plan("add"))

\* C28: in the add operation FailEntry is invoked only while the work of
\* the last step is under way: that step is the one the step function
\* holds, it is running, and FailEntry marks it; and at every moment all
\* steps before the last one are completed.
C28_FailureAttributed ==
    [][\A e \in Ids :
        mem'[e].operation = "add" =>
            /\ \A i \in 1..(Len(mem'[e].steps) - 1) :
                    mem'[e].steps[i].status = StepStatusCompleted
            /\ (ret'[e].op = "FailEntry" /\ ret[e].op # "FailEntry") =>
                    LET n == Len(mem[e].steps) IN
                    /\ After(e, "StartStep")
                    /\ n >= 1
                    /\ Bound(mem[e], step(e))
                    /\ step(e).idx = n
                    /\ mem[e].steps[n].status = StepStatusRunning
                    /\ ret'[e].err # ErrNoSteps
                    /\ mem'[e].steps[n].status = StepStatusFailed
                    /\ mem'[e].steps[n].error = ret'[e].arg]_vars

\* The copy of an add has failed after the source was verified: FailEntry
\* has marked the copy step and moved the entry.
C28_Witness ==
    \E e \in Ids :
        /\ mem[e].operation = "add"
        /\ After(e, "FailEntry")
        /\ Len(mem[e].steps) = 2
        /\ mem[e].steps[1].status = StepStatusCompleted
        /\ mem[e].steps[2].type = "copy"
        /\ mem[e].steps[2].status = StepStatusFailed
        /\ Files(disk, e) = {EntryStateFailed}

\* The steps of the step functions before the j-th of fns.
StepsBefore(fns, j) == Len(StepsFrom(fns, 1)) - Len(StepsFrom(fns, j))

\* The j-th step function of the run on entry e has returned nil.
ReturnedNil(e, fns, j) ==
    LET n == Len(mem[e].steps)
        hi == StepsBefore(fns, j) + Len(StepsOf(fns[j]))
    IN  \/ n > hi
        \/ n = hi /\ (After(e, "CompleteStep") \/ ret[e].op = "CompleteEntry")

\* C29: the steps of an add entry are those of its step functions in the
\* order of the run (verify; copy, verify; symlink; git), and once a step
\* function has returned nil the steps it has added are completed, in the
\* entry and in every file of it.
C29_StepFunctionsRecord ==
    \A e \in Ids :
        mem[e].operation = "add" =>
            LET fns == StepFunctions("add")
                n == Len(mem[e].steps)
            IN  /\ n <= Len(StepsFrom(fns, 1))
                /\ \A j \in 1..Len(fns) :
                    LET lo == StepsBefore(fns, j) IN
                    /\ \A k \in 1..Len(StepsOf(fns[j])) :
                        lo + k <= n =>
                            mem[e].steps[lo + k].type = StepsOf(fns[j])[k]
                    /\ ReturnedNil(e, fns, j) =>
                        \A k \in 1..Len(StepsOf(fns[j])) :
                            /\ mem[e].steps[lo + k].status = StepStatusCompleted
                            /\ \A dir \in Files(disk, e) :
                                LET f == readEntry(disk, dir, e) IN
                                /\ f.steps[lo + k].type = StepsOf(fns[j])[k]
                                /\ f.steps[lo + k].status = StepStatusCompleted

\* copyAndVerify has just returned nil: after the verify step of
\* verifySource the entry holds a copy step and a verify step, completed.
C29_Witness ==
    \E e \in Ids :
        /\ mem[e].operation = "add"
        /\ After(e, "CompleteStep")
        /\ Len(mem[e].steps) = 3
        /\ mem[e].steps[2].type = "copy"
        /\ mem[e].steps[3].type = "verify"
        /\ mem[e].steps[3].status = StepStatusCompleted
        /\ disk[EntryStateCurrent][e] = <<Marshal(mem[e])>>

\* C26: the state of an entry an operation holds, and of every file of it,
\* is current, completed or failed, and no file of it is outside the three
\* partition directories.
C26_StatesClosed ==
    \A e \in DOMAIN pc :
        /\ Held(e) => mem[e].state \in EntryStates
        /\ \A dir \in DOMAIN disk :
            Stat(disk, dir, e) =>
                /\ dir \in EntryStates
                /\ readEntryErr(disk, dir, e) = Nil
                    => readEntry(disk, dir, e).state \in EntryStates

\* The step handle h stands for has the status, in the entry and in its file,
\* after the step.
StatusAfter(e, h, status) ==
    /\ mem'[e].steps[h.idx].status = status
    /\ readEntry(disk', mem'[e].state, e).steps[h.idx].status = status

\* C27: whatever AddStep calls have followed the one that returned handle h,
\* a StartStep, CompleteStep or FailStep on h that returns nil has changed
\* the step of the entry h was returned for, and the file shows the change.
C27_HandlesStayBound ==
    [][\A e \in Ids : \A h \in handles[e] :
        /\ (StartStep(e, h) /\ ret'[e].err = Nil)
            => StatusAfter(e, h, StepStatusRunning)
        /\ (ret'[e].err = Nil /\ \E details \in DetailTexts : CompleteStep(e, h, details))
            => StatusAfter(e, h, StepStatusCompleted)
        /\ (ret'[e].err = Nil /\ \E err \in ErrTexts : FailStep(e, h, err))
            => StatusAfter(e, h, StepStatusFailed)]_vars

\* path is an ancestor directory of name.
Beneath(name, path) ==
    /\ Len(name) > Len(path)
    /\ SubSeq(name, 1, Len(path)) = path

\* C30: after MockFileSystem.RemoveAll(path) Stat fails for path and for
\* every name beneath path, at any depth.
C30_RemoveAllRecursive ==
    [][\A path \in Names :
        MockRemoveAll(path) =>
            \A name \in Names :
                (name = path \/ Beneath(name, path)) => ~MockStat(name)']_vars

\* The failed helper has left the file as it was and has issued no handle,
\* and the step h stands for has the status in the entry.
AheadOfDisk(e, h, status) ==
    /\ disk' = disk
    /\ handles' = handles
    /\ mem'[e].steps[h.idx].status = status

\* C33: a step helper whose write fails returns the error with the file
\* unchanged and the change kept in the entry: the step AddStep has
\* appended, for which it returns no handle, or the new status of the step
\* of the handle.
C33_MemoryAheadOfDisk ==
    [][\A e \in Ids :
        /\ \A stepType \in StepTypes :
            (AddStep(e, stepType) /\ ret'[e].err # Nil)
                => /\ disk' = disk
                   /\ handles' = handles
                   /\ mem'[e].steps = Append(mem[e].steps, NewStep(stepType))
        /\ \A h \in handles[e] :
            /\ (StartStep(e, h) /\ ret'[e].err # Nil)
                => AheadOfDisk(e, h, StepStatusRunning)
            /\ (ret'[e].err # Nil
                    /\ \E details \in DetailTexts : CompleteStep(e, h, details))
                => AheadOfDisk(e, h, StepStatusCompleted)
            /\ (ret'[e].err # Nil /\ \E err \in ErrTexts : FailStep(e, h, err))
                => AheadOfDisk(e, h, StepStatusFailed)]_vars

RetireReturnsNil(e) ==
    /\ pc[e] = "remove"
    /\ pc'[e] = "idle"
    /\ ret[e].op \in {"CompleteEntry", "FailEntry"}
    /\ ret'[e].err = Nil

InCreateSymlink(e, source) ==
    LET steps == mem[e].steps IN
    /\ mem[e].operation = "add"
    /\ mem[e].source = source
    /\ After(e, "StartStep")
    /\ steps[Len(steps)].type = "symlink"
    /\ steps[Len(steps)].status = StepStatusRunning
    /\ \E i \in 1..Len(steps) : \E j \in (i + 1)..Len(steps) :
        /\ steps[i].type = "copy"
        /\ steps[i].status = StepStatusCompleted
        /\ steps[j].type = "verify"
        /\ steps[j].status = StepStatusCompleted

\* C31: the add operation removes or replaces what is at the original path
\* only in createSymlink, after the copy step and the step verifying the
\* copy are completed; a run in which a step has failed adds no further
\* step, so that after a failure of verifySource, of the copy or of its
\* verification that run neither removes nor replaces the original.
C31_RemoveAfterVerifiedCopy ==
    [][/\ \A source \in Sources :
            {f \in MapFS' : f.name = <<source>>} # {f \in MapFS : f.name = <<source>>}
                => \E e \in Ids : InCreateSymlink(e, source)
       /\ \A e \in Ids :
            (/\ Len(mem[e].steps) >= 1
             /\ mem[e].steps[Len(mem[e].steps)].status = StepStatusFailed)
                => /\ Len(mem'[e].steps) = Len(mem[e].steps)
                   /\ ~RemoveAll(e)
                   /\ ~Symlink(e)]_vars

\* The copy of an add is made and verified and createSymlink has removed
\* the original.
C31_Witness ==
    \E e \in Ids :
        /\ InCreateSymlink(e, mem[e].source)
        /\ ~Exists(<<mem[e].source>>)
        /\ Copy(mem[e].target) \in MapFS

\* The entries a returned scan holds for id e.
Returns(e) == {i \in DOMAIN scan.entries : scan.entries[i].id = e}

\* C32: a ListEntries("") call that runs while an entry is moved from
\* current to a terminal partition and returns without an error has the
\* entry in its result, once or twice: every entry that had its file in
\* current when the call began is returned.
C32_MovedEntryListed ==
    (scan.returned /\ scan.err = Nil)
        => \A e \in scan.before : Cardinality(Returns(e)) \in {1, 2}

\* The entry was in current when the call began, was moved while the call
\* ran, and the call returned it from the terminal partition only.
C32_Witness ==
    /\ scan.returned
    /\ scan.err = Nil
    /\ \E e \in scan.before :
        /\ pc[e] = "idle"
        /\ ret[e].op = "MoveEntry"
        /\ ret[e].err = Nil
        /\ Returns(e) # {}
        /\ \A i \in Returns(e) : scan.entries[i].state \in TerminalStates

====
